---- MODULE Spec2Model ----
(***************************************************************************)
(* Model of lib/nghttp3_map.c: the Robin Hood open-addressing hash table   *)
(* of nghttp3 (64-bit keys, opaque non-NULL data pointers, 8-bit probe     *)
(* sequence lengths stored plus one, backward-shift deletion, power-of-two *)
(* growth at load factor 7/8).                                             *)
(***************************************************************************)
EXTENDS Integers, Sequences, FiniteSets, TLC

(***************************************************************************)
(* 64-bit unsigned arithmetic.  nghttp3_map_key_type is uint64_t; a value  *)
(* is kept as its 8 bytes, least significant first, so that the wrapping   *)
(* addition and multiplications of map_index are computed exactly.         *)
(***************************************************************************)
U64Bytes == 8

ByteBase == 256

\* The bytes of the uint64_t whose value is n (n < 2^31 in this model).
ToU64(n) ==
  [i \in 1..U64Bytes |-> IF i <= 4 THEN (n \div (ByteBase ^ (i - 1))) % ByteBase ELSE 0]

RECURSIVE AddBytes(_, _, _, _)
AddBytes(a, b, i, carry) ==
  IF i > U64Bytes THEN <<>>
  ELSE LET t == a[i] + b[i] + carry
       IN  <<t % ByteBase>> \o AddBytes(a, b, i + 1, t \div ByteBase)

\* a + b modulo 2^64
Add64(a, b) == AddBytes(a, b, 1, 0)

RECURSIVE MulColumn(_, _, _, _)
MulColumn(a, b, i, j) ==
  IF j > i THEN 0 ELSE a[j] * b[i + 1 - j] + MulColumn(a, b, i, j + 1)

RECURSIVE MulBytes(_, _, _, _)
MulBytes(a, b, i, carry) ==
  IF i > U64Bytes THEN <<>>
  ELSE LET t == MulColumn(a, b, i, 1) + carry
       IN  <<t % ByteBase>> \o MulBytes(a, b, i + 1, t \div ByteBase)

\* a * b modulo 2^64
Mul64(a, b) == MulBytes(a, b, 1, 0)

\* Bit i (0 = least significant) of the 64-bit value x.
Bit64(x, i) == (x[(i \div 8) + 1] \div (2 ^ (i % 8))) % 2

RECURSIVE ShiftRightFrom(_, _, _)
ShiftRightFrom(x, n, i) ==
  IF i > 63 THEN 0 ELSE Bit64(x, i) * (2 ^ (i - n)) + ShiftRightFrom(x, n, i + 1)

\* x >> n as an integer, for 64 - n small enough to fit (n >= 34).
ShiftRight64(x, n) == ShiftRightFrom(x, n, n)

\* 0xf1357aea2e62a9c5
NGHTTP3_MAP_HASHER == <<197, 169, 98, 46, 234, 122, 53, 241>>

\* 0x9e3779b97f4a7c15
NGHTTP3_MAP_FIBO == <<21, 124, 74, 127, 185, 121, 55, 158>>

NGHTTP3_INITIAL_HASHBITS == 4

\* sizeof(size_t) * 8 - 1 on an LP64 build
NGHTTP3_MAP_MAX_HASHBITS == 63

NGHTTP3_ERR_INVALID_ARGUMENT == -101

NGHTTP3_ERR_NOMEM == -901

\* What the model reports for a call whose loop would never return.
NO_RETURN == -1

NULL == 0

(***************************************************************************)
(* The keys, data pointers and seeds the client of this model uses.        *)
(***************************************************************************)
NumFillers == 12

NumValues == 2

Seeds == {0}

\* Keys whose ideal slots collide at the end of the 16-slot table.
FreeKeys == {13, 31}

FillerSeq == <<0, 5, 10, 9, 14, 15, 2, 7, 12, 17, 4, 1, 6, 11, 16>>

Fillers == {FillerSeq[i] : i \in 1..NumFillers}

Keys == FreeKeys \cup Fillers

\* every key a bound of this model can name
AllKeys == FreeKeys \cup {FillerSeq[i] : i \in 1..Len(FillerSeq)}

\* the largest table the keys of this model can make the code allocate
MaxHashbits == 6

\* data pointers: non-NULL, as nghttp3_map_insert asserts
Values == 1..NumValues

(***************************************************************************)
(* The keys of a client that knows the seed.  With seed 0 the keys of      *)
(* FloodKeys all have the ideal slot 0 in every table of up to 1024 slots  *)
(* (the top ten bits of their hash are 0), and the key of FloodExtraKeys   *)
(* has the ideal slot 255 in the 512-slot table.                           *)
(***************************************************************************)
\* how many of the colliding keys the client uses
NumFlood == 256

\* the largest table this client makes the code allocate
FloodMaxHashbits == 10

FloodKeys ==
  <<
    283, 566, 849, 1132, 1415, 1698, 1981, 2264,
    2547, 9887, 10170, 10453, 10736, 11019, 11302, 11585,
    11868, 12151, 19491, 19774, 20057, 20340, 20623, 20906,
    21189, 21472, 21755, 29095, 29378, 29661, 29944, 30227,
    30510, 30793, 31076, 31359, 38699, 38982, 39265, 39548,
    39831, 40114, 40397, 40680, 40963, 48303, 48586, 48869,
    49152, 49435, 49718, 50001, 50284, 50567, 50850, 57907,
    58190, 58473, 58756, 59039, 59322, 59605, 59888, 60171,
    60454, 67794, 68077, 68360, 68643, 68926, 69209, 69492,
    69775, 70058, 77398, 77681, 77964, 78247, 78530, 78813,
    79096, 79379, 79662, 87002, 87285, 87568, 87851, 88134,
    88417, 88700, 88983, 89266, 96606, 96889, 97172, 97455,
    97738, 98021, 98304, 98587, 98870, 106210, 106493, 106776,
    107059, 107342, 107625, 107908, 108191, 108474, 115814, 116097,
    116380, 116663, 116946, 117229, 117512, 117795, 118078, 118361,
    125418, 125701, 125984, 126267, 126550, 126833, 127116, 127399,
    127682, 127965, 135305, 135588, 135871, 136154, 136437, 136720,
    137003, 137286, 137569, 144909, 145192, 145475, 145758, 146041,
    146324, 146607, 146890, 147173, 154513, 154796, 155079, 155362,
    155645, 155928, 156211, 156494, 156777, 164117, 164400, 164683,
    164966, 165249, 165532, 165815, 166098, 166381, 173721, 174004,
    174287, 174570, 174853, 175136, 175419, 175702, 175985, 176268,
    183325, 183608, 183891, 184174, 184457, 184740, 185023, 185306,
    185589, 185872, 192929, 193212, 193495, 193778, 194061, 194344,
    194627, 194910, 195193, 195476, 202816, 203099, 203382, 203665,
    203948, 204231, 204514, 204797, 205080, 212420, 212703, 212986,
    213269, 213552, 213835, 214118, 214401, 214684, 222024, 222307,
    222590, 222873, 223156, 223439, 223722, 224005, 224288, 231628,
    231911, 232194, 232477, 232760, 233043, 233326, 233609, 233892,
    241232, 241515, 241798, 242081, 242364, 242647, 242930, 243213,
    243496, 243779, 250836, 251119, 251402, 251685, 251968, 252251,
    252534, 252817, 253100, 253383, 260440, 260723, 261006, 261289,
    261572, 261855, 262138, 262421
  >>

FloodColliding == {FloodKeys[i] : i \in 1..NumFlood}

FloodExtraKeys == {274}

FloodClientKeys == FloodColliding \cup FloodExtraKeys

(***************************************************************************)
(* The table.  A nghttp3_map is the record                                 *)
(*   [seed, hashbits, size, buf, keys, data, psl]                          *)
(* where keys, data and psl are the three parallel arrays (functions on    *)
(* 0 .. 2^hashbits - 1, empty while nothing is allocated) and buf names    *)
(* the allocation map->keys points at (NULL while nothing is allocated).   *)
(***************************************************************************)
TableLen(hashbits) == 2 ^ hashbits

ZeroArray(tablelen) == [i \in 0..(tablelen - 1) |-> 0]

\* nghttp3_map_init
nghttp3_map_init(seed) ==
  [seed |-> seed, hashbits |-> 0, size |-> 0, buf |-> NULL,
   keys |-> ZeroArray(0), data |-> ZeroArray(0), psl |-> ZeroArray(0)]

\* map_index: ((key + seed) * HASHER * FIBO) >> (64 - hashbits)
map_index_of(seed, hashbits, key) ==
  ShiftRight64(
    Mul64(Mul64(Add64(ToU64(key), ToU64(seed)), NGHTTP3_MAP_HASHER),
          NGHTTP3_MAP_FIBO),
    64 - hashbits)

\* map_index on the seeds, table sizes and keys of this model, computed once.
IndexTable ==
  LET t == [seed \in Seeds |-> [hashbits \in 1..MaxHashbits |->
             [key \in AllKeys |-> map_index_of(seed, hashbits, key)]]]
  IN  IF t = t THEN t ELSE t

\* map_index on the keys of the client that knows the seed, computed once.
FloodIndexTable ==
  LET t == [seed \in Seeds |->
             [hashbits \in NGHTTP3_INITIAL_HASHBITS..FloodMaxHashbits |->
               [key \in FloodClientKeys |->
                  map_index_of(seed, hashbits, key)]]]
  IN  IF t = t THEN t ELSE t

map_index(map, key) ==
  IF key \in AllKeys
    THEN IndexTable[map.seed][map.hashbits][key]
    ELSE FloodIndexTable[map.seed][map.hashbits][key]

\* idx = (idx + 1) & mask, with mask = (1 << hashbits) - 1
NextIdx(map, idx) == (idx + 1) % TableLen(map.hashbits)

\* (uint8_t)psl
U8(psl) == psl % 256

MaxOf(a, b) == IF a > b THEN a ELSE b

\* map_set_entry
map_set_entry(map, idx, key, data, psl) ==
  [map EXCEPT !.keys[idx] = key, !.data[idx] = data, !.psl[idx] = U8(psl)]

(***************************************************************************)
(* The loops.  A loop of the code is modelled by the operator for one pass *)
(* through its body, from the record of the loop's variables to that       *)
(* record after the pass; done tells that the pass left the loop (by a     *)
(* return, a break or the end of a for), rv the value returned with it.    *)
(* The operator for the loop makes at most n passes, the first half of     *)
(* them and then the rest.                                                 *)
(***************************************************************************)
\* One pass of the for (;;) loop of map_insert.  key, data and psl are the
\* entry in hand; swapped tells whether a swap was done earlier in this
\* call; steps counts the passes; maxpsl is the largest psl (as the size_t
\* it is before the cast to uint8_t) the call wrote into a slot so far.
\* The swap leaves the slot's psl in hand, which ++psl then increments.
map_insert_step(s) ==
  LET kpsl == s.map.psl[s.idx]
  IN  IF kpsl = 0
        THEN [s EXCEPT !.map = [map_set_entry(s.map, s.idx, s.key, s.data,
                                               s.psl)
                                  EXCEPT !.size = s.map.size + 1],
                       !.maxpsl = MaxOf(@, s.psl),
                       !.steps = @ + 1, !.done = TRUE, !.rv = 0]
      ELSE IF s.psl > kpsl
        THEN [s EXCEPT !.map = map_set_entry(s.map, s.idx, s.key, s.data,
                                             s.psl),
                       !.key = s.map.keys[s.idx],
                       !.data = s.map.data[s.idx],
                       !.psl = kpsl + 1,
                       !.idx = NextIdx(s.map, s.idx),
                       !.swapped = TRUE,
                       !.maxpsl = MaxOf(@, s.psl),
                       !.steps = @ + 1]
      ELSE IF s.map.keys[s.idx] = s.key
        THEN [s EXCEPT !.steps = @ + 1, !.done = TRUE,
                       !.rv = NGHTTP3_ERR_INVALID_ARGUMENT]
      ELSE [s EXCEPT !.psl = @ + 1, !.idx = NextIdx(s.map, s.idx),
                     !.steps = @ + 1]

\* At most n passes of the loop of map_insert.
RECURSIVE map_insert_loop(_, _)
map_insert_loop(s, n) ==
  IF s.done \/ n <= 0 THEN s
  ELSE IF n = 1 THEN map_insert_step(s)
  ELSE LET h == map_insert_loop(s, n \div 2)
       IN  IF h.done THEN h ELSE map_insert_loop(h, n - (n \div 2))

\* map_insert: the loop's variables when the call returns, with the table
\* (map) and the value returned (rv).  No pass but a return leaves the
\* loop; a call that is still in it after as many passes as the table has
\* slots is reported as NO_RETURN.
map_insert(map, key, data) ==
  map_insert_loop(
    [map |-> map, idx |-> map_index(map, key), key |-> key, data |-> data,
     psl |-> 1, swapped |-> FALSE, maxpsl |-> 0, steps |-> 0,
     done |-> FALSE, rv |-> NO_RETURN],
    TableLen(map.hashbits))

\* The rest of a pass of map_resize's loop once map_insert has returned r:
\* rv = map_insert(&new_map, ...); assert(0 == rv); ++i.
map_resize_reinserted(s, r) ==
  [s EXCEPT !.new_map = r.map,
            !.asserted = @ /\ r.rv = 0,
            !.maxpsl = MaxOf(@, r.maxpsl),
            !.i = @ + 1,
            !.done = s.i + 1 >= TableLen(s.map.hashbits)]

\* One pass of the for loop of map_resize over the slots of the old table.
\* asserted is FALSE once some assert(0 == rv) did not hold (the loop goes
\* on, as it does in a build with NDEBUG); maxpsl is the largest psl the
\* calls of map_insert wrote.
map_resize_step(s) ==
  IF s.map.psl[s.i] = 0
    THEN [s EXCEPT !.i = @ + 1,
                   !.done = s.i + 1 >= TableLen(s.map.hashbits)]
  ELSE map_resize_reinserted(
         s, map_insert(s.new_map, s.map.keys[s.i], s.map.data[s.i]))

\* At most n passes of the loop of map_resize.
RECURSIVE map_resize_range(_, _)
map_resize_range(s, n) ==
  IF s.done \/ n <= 0 THEN s
  ELSE IF n = 1 THEN map_resize_step(s)
  ELSE LET h == map_resize_range(s, n \div 2)
       IN  IF h.done THEN h ELSE map_resize_range(h, n - (n \div 2))

\* The loop of map_resize: i = 0 .. tablelen - 1 over the old table; the
\* loop's variables when it has ended.
map_resize_loop(map, new_map) ==
  map_resize_range(
    [map |-> map, new_map |-> new_map, i |-> 0, asserted |-> TRUE,
     maxpsl |-> 0, done |-> FALSE],
    TableLen(map.hashbits))

\* new_map of map_resize: the zeroed buffer with the new bit width.
map_resize_new_map(map, new_hashbits, newbuf) ==
  [seed |-> map.seed, hashbits |-> new_hashbits, size |-> 0, buf |-> newbuf,
   keys |-> ZeroArray(TableLen(new_hashbits)),
   data |-> ZeroArray(TableLen(new_hashbits)),
   psl |-> ZeroArray(TableLen(new_hashbits))]

\* if (map->size) { ... } of map_resize: the entries of the old table are
\* re-inserted into new_map if there are any.
map_resize_copy(map, new_map) ==
  IF map.size # 0
    THEN map_resize_loop(map, new_map)
    ELSE [map |-> map, new_map |-> new_map, i |-> 0, asserted |-> TRUE,
          maxpsl |-> 0, done |-> TRUE]

\* The end of map_resize after the loop left s: the buffer freed is handed
\* to nghttp3_mem_free, new_map's arrays and bit width become the table's.
map_resize_swap(map, s, freed) ==
  [map |-> [map EXCEPT !.keys = s.new_map.keys, !.data = s.new_map.data,
                       !.psl = s.new_map.psl, !.buf = s.new_map.buf,
                       !.hashbits = s.new_map.hashbits],
   rv |-> 0, alloc |-> s.new_map.buf, freed |-> freed,
   asserted |-> s.asserted, copied |-> s.new_map.size,
   maxpsl |-> s.maxpsl]

\* map_resize releasing the old buffer before it looks at the new one.
map_resize_free_first(map, new_hashbits, allocated, newbuf) ==
  IF ~allocated
    THEN [map |-> map, rv |-> NGHTTP3_ERR_NOMEM, alloc |-> NULL,
          freed |-> map.buf, asserted |-> TRUE, copied |-> 0, maxpsl |-> 0]
  ELSE map_resize_swap(
         map,
         map_resize_copy(map, map_resize_new_map(map, new_hashbits, newbuf)),
         map.buf)

\* map_resize without the release of the old buffer.
map_resize_keeps_old(map, new_hashbits, allocated, newbuf) ==
  IF ~allocated
    THEN [map |-> map, rv |-> NGHTTP3_ERR_NOMEM, alloc |-> NULL,
          freed |-> NULL, asserted |-> TRUE, copied |-> 0, maxpsl |-> 0]
  ELSE map_resize_swap(
         map,
         map_resize_copy(map, map_resize_new_map(map, new_hashbits, newbuf)),
         NULL)

\* map_resize.  allocated tells whether nghttp3_mem_calloc succeeds and
\* newbuf names the allocation it returns.  The result names the buffer
\* handed to nghttp3_mem_free (NULL: none, or free(NULL)), the size of
\* new_map when the loop has ended (copied) and the largest psl written.
\* map->size is not assigned: it keeps the caller's count.
map_resize(map, new_hashbits, allocated, newbuf) ==
  IF ~allocated
    THEN [map |-> map, rv |-> NGHTTP3_ERR_NOMEM, alloc |-> NULL,
          freed |-> NULL, asserted |-> TRUE, copied |-> 0, maxpsl |-> 0]
  ELSE map_resize_swap(
         map,
         map_resize_copy(map, map_resize_new_map(map, new_hashbits, newbuf)),
         map.buf)

\* The load factor test with a load factor of 1.
NeedsResize_at_capacity(map) ==
  LET tablelen == TableLen(map.hashbits)
  IN  map.size + 1 >= tablelen

\* The load factor test of nghttp3_map_insert: size + 1 >= tablelen * 7 / 8.
NeedsResize(map) ==
  LET tablelen == TableLen(map.hashbits)
  IN  map.size + 1 >= tablelen - (tablelen \div 8)

\* The new bit width without the initial size.
NewHashbits_no_initial(map) == map.hashbits + 1

NewHashbits(map) ==
  IF map.hashbits # 0 THEN map.hashbits + 1 ELSE NGHTTP3_INITIAL_HASHBITS

\* return map_insert(map, key, data): what nghttp3_map_insert returns when
\* map_insert has returned r, after a map_resize that returned rs or after
\* none.
nghttp3_map_insert_return(rs, resized, r) ==
  [map |-> r.map, rv |-> r.rv, alloc |-> rs.alloc, freed |-> rs.freed,
   asserted |-> rs.asserted, resized |-> resized, swapped |-> r.swapped,
   maxpsl |-> MaxOf(rs.maxpsl, r.maxpsl), steps |-> r.steps]

\* nghttp3_map_insert once map_resize has returned rs: if (rv != 0) return
\* rv; return map_insert(map, key, data).
nghttp3_map_insert_resized(rs, key, data) ==
  IF rs.rv # 0
    THEN [map |-> rs.map, rv |-> rs.rv, alloc |-> rs.alloc,
          freed |-> rs.freed, asserted |-> rs.asserted, resized |-> FALSE,
          swapped |-> FALSE, maxpsl |-> rs.maxpsl, steps |-> 0]
  ELSE nghttp3_map_insert_return(rs, TRUE, map_insert(rs.map, key, data))

\* nghttp3_map_insert.  The result also tells what the call did to the
\* allocator (alloc, freed: the buffers obtained and released, if any),
\* whether map_resize ran to its end (resized), whether every assert in it
\* held (asserted), whether the final map_insert swapped (swapped) and
\* the largest psl the call wrote into a slot (maxpsl) and the number of
\* passes of the final map_insert's loop (steps).
nghttp3_map_insert(map, key, data, allocated, newbuf) ==
  IF NeedsResize(map)
    THEN IF NewHashbits(map) > NGHTTP3_MAP_MAX_HASHBITS
           THEN [map |-> map, rv |-> NGHTTP3_ERR_NOMEM, alloc |-> NULL,
                 freed |-> NULL, asserted |-> TRUE, resized |-> FALSE,
                 swapped |-> FALSE, maxpsl |-> 0, steps |-> 0]
         ELSE nghttp3_map_insert_resized(
                map_resize(map, NewHashbits(map), allocated, newbuf),
                key, data)
  ELSE nghttp3_map_insert_return(
         [alloc |-> NULL, freed |-> NULL, asserted |-> TRUE, maxpsl |-> 0],
         FALSE, map_insert(map, key, data))

\* One pass of the loop of nghttp3_map_find; psl is also the number of
\* slots examined when the loop is left.
map_find_step(s) ==
  IF s.psl > s.map.psl[s.idx] THEN [s EXCEPT !.done = TRUE, !.rv = NULL]
  ELSE IF s.map.keys[s.idx] = s.key
    THEN [s EXCEPT !.done = TRUE, !.rv = s.map.data[s.idx]]
  ELSE [s EXCEPT !.psl = @ + 1, !.idx = NextIdx(s.map, s.idx)]

\* At most n passes of the loop of nghttp3_map_find.
RECURSIVE map_find_loop(_, _)
map_find_loop(s, n) ==
  IF s.done \/ n <= 0 THEN s
  ELSE IF n = 1 THEN map_find_step(s)
  ELSE LET h == map_find_loop(s, n \div 2)
       IN  IF h.done THEN h ELSE map_find_loop(h, n - (n \div 2))

\* The loop of nghttp3_map_find from the ideal slot of key.  A stored psl is
\* at most 255, so the 256th pass at the latest leaves the loop.
map_find_probe(map, key) ==
  map_find_loop([map |-> map, idx |-> map_index(map, key), key |-> key,
                 psl |-> 1, done |-> FALSE, rv |-> NO_RETURN],
                256)

\* nghttp3_map_find
nghttp3_map_find(map, key) ==
  IF map.size = 0 THEN NULL
  ELSE map_find_probe(map, key).rv

\* One pass of the backward shift that moves an entry without taking one
\* off its psl.
map_remove_shift_step_keeps_psl(s) ==
  LET kpsl == s.map.psl[s.idx]
  IN  IF kpsl <= 1
        THEN [s EXCEPT !.map = [s.map EXCEPT !.psl[s.dest] = 0],
                       !.done = TRUE]
      ELSE [s EXCEPT !.map = map_set_entry(s.map, s.dest, s.map.keys[s.idx],
                                           s.map.data[s.idx], kpsl),
                     !.dest = s.idx,
                     !.idx = NextIdx(s.map, s.idx),
                     !.steps = @ + 1,
                     !.wrapped = @ \/ s.idx < s.dest]

\* One pass of the inner loop of nghttp3_map_remove: the backward shift
\* into dest.  steps counts the entries moved so far; wrapped tells whether
\* some entry was moved from slot 0 back into the last slot.
map_remove_shift_step(s) ==
  LET kpsl == s.map.psl[s.idx]
  IN  IF kpsl <= 1
        THEN [s EXCEPT !.map = [s.map EXCEPT !.psl[s.dest] = 0],
                       !.done = TRUE]
      ELSE [s EXCEPT !.map = map_set_entry(s.map, s.dest, s.map.keys[s.idx],
                                           s.map.data[s.idx], kpsl - 1),
                     !.dest = s.idx,
                     !.idx = NextIdx(s.map, s.idx),
                     !.steps = @ + 1,
                     !.wrapped = @ \/ s.idx < s.dest]

\* At most n passes of the inner loop of nghttp3_map_remove.
RECURSIVE map_remove_shift_loop(_, _)
map_remove_shift_loop(s, n) ==
  IF s.done \/ n <= 0 THEN s
  ELSE IF n = 1 THEN map_remove_shift_step(s)
  ELSE LET h == map_remove_shift_loop(s, n \div 2)
       IN  IF h.done THEN h ELSE map_remove_shift_loop(h, n - (n \div 2))

\* The backward shift into dest, from the slot after it.  A shift that is
\* still going on when every slot has been moved is reported as NO_RETURN.
map_remove_shift(map, dest) ==
  map_remove_shift_loop(
    [map |-> map, dest |-> dest, idx |-> NextIdx(map, dest), steps |-> 0,
     wrapped |-> FALSE, done |-> FALSE],
    TableLen(map.hashbits) + 1)

\* The end of nghttp3_map_remove once the backward shift has left r:
\* --map->size; return 0.
map_remove_shifted(s, r) ==
  [s EXCEPT !.map = IF r.done
                      THEN [r.map EXCEPT !.size = s.map.size - 1]
                      ELSE r.map,
            !.done = TRUE,
            !.rv = IF r.done THEN 0 ELSE NO_RETURN,
            !.wrapped = r.wrapped, !.moved = r.steps]

\* One pass of the outer loop of nghttp3_map_remove; psl is also the
\* number of slots examined when the loop is left, moved the number of
\* entries the backward shift moved.
map_remove_step(s) ==
  IF s.psl > s.map.psl[s.idx]
    THEN [s EXCEPT !.done = TRUE, !.rv = NGHTTP3_ERR_INVALID_ARGUMENT]
  ELSE IF s.map.keys[s.idx] = s.key
    THEN map_remove_shifted(s, map_remove_shift(s.map, s.idx))
  ELSE [s EXCEPT !.psl = @ + 1, !.idx = NextIdx(s.map, s.idx)]

\* At most n passes of the outer loop of nghttp3_map_remove.
RECURSIVE map_remove_loop(_, _)
map_remove_loop(s, n) ==
  IF s.done \/ n <= 0 THEN s
  ELSE IF n = 1 THEN map_remove_step(s)
  ELSE LET h == map_remove_loop(s, n \div 2)
       IN  IF h.done THEN h ELSE map_remove_loop(h, n - (n \div 2))

\* nghttp3_map_remove: the outer loop's variables when the call returns,
\* with the table (map) and the value returned (rv).  As in
\* nghttp3_map_find, the 256th pass of the outer loop at the latest leaves
\* it.
nghttp3_map_remove(map, key) ==
  IF map.size = 0
    THEN [map |-> map, idx |-> 0, key |-> key, psl |-> 0, wrapped |-> FALSE,
          moved |-> 0, done |-> TRUE, rv |-> NGHTTP3_ERR_INVALID_ARGUMENT]
  ELSE map_remove_loop(
         [map |-> map, idx |-> map_index(map, key), key |-> key, psl |-> 1,
          wrapped |-> FALSE, moved |-> 0, done |-> FALSE, rv |-> NO_RETURN],
         256)

\* nghttp3_map_clear without the reset of size.
nghttp3_map_clear_keeps_size(map) ==
  IF map.size = 0 THEN map
  ELSE [map EXCEPT !.psl = ZeroArray(TableLen(map.hashbits))]

\* nghttp3_map_clear with a memset over the first size slots only.
nghttp3_map_clear_size_slots(map) ==
  IF map.size = 0 THEN map
  ELSE [map EXCEPT !.psl = [i \in DOMAIN map.psl |->
                             IF i < map.size THEN 0 ELSE map.psl[i]],
                   !.size = 0]

\* nghttp3_map_clear
nghttp3_map_clear(map) ==
  IF map.size = 0 THEN map
  ELSE [map EXCEPT !.psl = ZeroArray(TableLen(map.hashbits)), !.size = 0]

\* nghttp3_map_size
nghttp3_map_size(map) == map.size

\* One pass of the for loop of nghttp3_map_each.  The callback is modelled
\* by the number of the invocation at which it returns nonzero (failAt,
\* 0: never) and the value it then returns; calls is the sequence of data
\* pointers it has been handed so far.
map_each_step(s) ==
  IF s.map.psl[s.i] = 0
    THEN [s EXCEPT !.i = @ + 1,
                   !.done = s.i + 1 >= TableLen(s.map.hashbits)]
  ELSE LET now == Append(s.calls, s.map.data[s.i])
       IN  IF Len(now) = s.failAt
             THEN [s EXCEPT !.calls = now, !.done = TRUE, !.rv = s.failRv]
           ELSE [s EXCEPT !.calls = now, !.i = @ + 1,
                          !.done = s.i + 1 >= TableLen(s.map.hashbits)]

\* At most n passes of the loop of nghttp3_map_each.
RECURSIVE map_each_loop(_, _)
map_each_loop(s, n) ==
  IF s.done \/ n <= 0 THEN s
  ELSE IF n = 1 THEN map_each_step(s)
  ELSE LET h == map_each_loop(s, n \div 2)
       IN  IF h.done THEN h ELSE map_each_loop(h, n - (n \div 2))

\* nghttp3_map_each.  The result also holds the table as the call leaves
\* it.
nghttp3_map_each(map, failAt, failRv) ==
  IF map.size = 0
    THEN [map |-> map, i |-> 0, failAt |-> failAt, failRv |-> failRv,
          calls |-> <<>>, done |-> TRUE, rv |-> 0]
  ELSE map_each_loop(
         [map |-> map, i |-> 0, failAt |-> failAt, failRv |-> failRv,
          calls |-> <<>>, done |-> FALSE, rv |-> 0],
         TableLen(map.hashbits))

(***************************************************************************)
(* The client.  It owns one table and calls its operations one at a time   *)
(* (the table is single-threaded).  Two keys are inserted and removed      *)
(* freely, with any data.  The other keys, the fillers, are loaded in a    *)
(* fixed order and stay until the table is cleared, which is what lets a   *)
(* run fill the 16-slot table up to its growth threshold; the client       *)
(* clears the table while it holds no filler or once it holds every key.   *)
(* Calls that cannot change the contents (find, an insert of a key that is *)
(* present, a remove of a key that is absent) are made with every key; a   *)
(* filler is always offered with the same data.                            *)
(***************************************************************************)
\* How many invocations the callback handed to nghttp3_map_each may take
\* before the one at which it returns nonzero.
MaxFailAt == 2

\* What a failing callback returns.
CallbackErrors == {-1}

\* How many successful inserts a run of SpecCount makes.
MaxInserts == 4

VARIABLES
  map,     \* the nghttp3_map
  heap,    \* the allocator: the live buffers, the number of buffers handed
           \* out, and whether a buffer that is not live was released
  shadow,  \* key -> the data of its latest successful insert, NULL once
           \* removed or cleared
  ret,     \* the last call: its name, the value it returned, whether it
           \* grew the table and whether its backward shift wrapped
  count    \* kept by SpecCount only: the successful inserts and removes
           \* so far and the entries dropped by clear

vars == <<map, heap, shadow, ret, count>>

\* nghttp3_mem_calloc / nghttp3_mem_free as seen by the table: alloc is the
\* buffer obtained (NULL: none), freed the buffer released (NULL: none).
HeapAfter(h, alloc, freed) ==
  [live |-> (h.live \cup (IF alloc = NULL THEN {} ELSE {alloc}))
              \ (IF freed = NULL THEN {} ELSE {freed}),
   nalloc |-> IF alloc = NULL THEN h.nalloc ELSE h.nalloc + 1,
   badfree |-> h.badfree \/ (freed # NULL /\ freed \notin h.live)]

\* What the client knows to be stored under k.
Stored(k) == IF k \in DOMAIN shadow THEN shadow[k] ELSE NULL

FillerLevel == Cardinality({k \in Fillers : shadow[k] # NULL})

FillerValue(k) == (k % NumValues) + 1

MayInsert(k, v) ==
  \/ k \in FreeKeys
  \/ /\ v = FillerValue(k)
     /\ \/ shadow[k] # NULL
        \/ FillerLevel < NumFillers /\ k = FillerSeq[FillerLevel + 1]

MayRemove(k) == k \in FreeKeys \/ Stored(k) = NULL

MayClear == FillerLevel = 0 \/ \A k \in Keys : shadow[k] # NULL

\* nghttp3_mem_calloc is called only by a growth; it may fail.
AllocOutcomes == IF NeedsResize(map) THEN BOOLEAN ELSE {TRUE}

\* No call is made on a table that was freed.
Alive == ret.op # "free"

Returned(op, rv, grew, wrapped) ==
  [op |-> op, rv |-> rv, grew |-> grew, wrapped |-> wrapped]

Init ==
  /\ \E seed \in Seeds : map = nghttp3_map_init(seed)
  /\ heap = [live |-> {}, nalloc |-> 0, badfree |-> FALSE]
  /\ shadow = [k \in Keys |-> NULL]
  /\ ret = Returned("init", 0, FALSE, FALSE)
  /\ count = [inserted |-> 0, removed |-> 0, dropped |-> 0]

\* The client's state when nghttp3_map_insert(map, k, v) has returned r.
InsertReturn(k, v, r) ==
  /\ map' = r.map
  /\ heap' = HeapAfter(heap, r.alloc, r.freed)
  /\ shadow' = IF r.rv = 0 THEN [shadow EXCEPT ![k] = v] ELSE shadow
  /\ ret' = Returned("insert", r.rv, r.resized, FALSE)

InsertCall(k, v, allocated) ==
  /\ Alive
  /\ MayInsert(k, v)
  /\ InsertReturn(k, v,
                  nghttp3_map_insert(map, k, v, allocated, heap.nalloc + 1))

FindCall(k) ==
  /\ Alive
  /\ ret' = Returned("find", nghttp3_map_find(map, k), FALSE, FALSE)
  /\ UNCHANGED <<map, heap, shadow>>

\* The client's state when nghttp3_map_remove(map, k) has returned r.
RemoveReturn(k, r) ==
  /\ map' = r.map
  /\ shadow' = IF r.rv = 0 THEN [shadow EXCEPT ![k] = NULL] ELSE shadow
  /\ ret' = Returned("remove", r.rv, FALSE, r.wrapped)
  /\ UNCHANGED heap

RemoveCall(k) ==
  /\ Alive
  /\ MayRemove(k)
  /\ RemoveReturn(k, nghttp3_map_remove(map, k))

ClearCall ==
  /\ Alive
  /\ MayClear
  /\ map' = nghttp3_map_clear(map)
  /\ shadow' = [k \in Keys |-> NULL]
  /\ ret' = Returned("clear", 0, FALSE, FALSE)
  /\ UNCHANGED heap

EachCall(failAt, failRv) ==
  /\ Alive
  /\ LET r == nghttp3_map_each(map, failAt, failRv)
     IN  /\ map' = r.map
         /\ ret' = Returned("each", r.rv, FALSE, FALSE)
  /\ UNCHANGED <<heap, shadow>>

SizeCall ==
  /\ Alive
  /\ ret' = Returned("size", nghttp3_map_size(map), FALSE, FALSE)
  /\ UNCHANGED <<map, heap, shadow>>

\* nghttp3_map_free: releases map->keys and leaves the structure as it is.
FreeCall ==
  /\ Alive
  /\ heap' = HeapAfter(heap, NULL, map.buf)
  /\ ret' = Returned("free", 0, FALSE, FALSE)
  /\ UNCHANGED <<map, shadow>>

Insert ==
  /\ \E k \in Keys, v \in Values, allocated \in AllocOutcomes :
       InsertCall(k, v, allocated)
  /\ UNCHANGED count

Find == (\E k \in AllKeys : FindCall(k)) /\ UNCHANGED count

Remove == (\E k \in AllKeys : RemoveCall(k)) /\ UNCHANGED count

Clear == ClearCall /\ UNCHANGED count

Each ==
  /\ \E failAt \in 0..MaxFailAt, failRv \in CallbackErrors :
       EachCall(failAt, failRv)
  /\ UNCHANGED count

Size == SizeCall /\ UNCHANGED count

Free == FreeCall /\ UNCHANGED count

Next == Insert \/ Find \/ Remove \/ Clear \/ Each \/ Size \/ Free

Spec == Init /\ [][Next]_vars

(***************************************************************************)
(* The same client, counting its successful calls.  The counts grow with   *)
(* every insert and remove cycle, so a run makes at most MaxInserts        *)
(* successful inserts.                                                     *)
(***************************************************************************)
CountedInsert ==
  /\ count.inserted < MaxInserts
  /\ \E k \in Keys, v \in Values, allocated \in AllocOutcomes :
       InsertCall(k, v, allocated)
  /\ count' = [count EXCEPT
                 !.inserted = IF ret'.rv = 0 THEN @ + 1 ELSE @]

CountedRemove ==
  /\ \E k \in AllKeys : RemoveCall(k)
  /\ count' = [count EXCEPT
                 !.removed = IF ret'.rv = 0 THEN @ + 1 ELSE @]

CountedClear ==
  /\ ClearCall
  /\ count' = [count EXCEPT !.dropped = @ + nghttp3_map_size(map)]

NextCount == CountedInsert \/ CountedRemove \/ CountedClear

SpecCount == Init /\ [][NextCount]_vars

(***************************************************************************)
(* The client that knows the seed.  It inserts the colliding keys in the   *)
(* order of FloodKeys, always with the same data; once all but the last    *)
(* are in the table it also inserts and removes the last colliding key and *)
(* the extra key as it likes.  The allocator never fails it.  count tells  *)
(* how many of its inserts and removes succeeded.                          *)
(***************************************************************************)
\* How many successful inserts and removes a run of SpecFlood makes.
MaxFloodInserts == 448

MaxFloodRemoves == 1

FloodLevel == Cardinality({k \in FloodColliding : shadow[k] # NULL})

FloodLast == FloodKeys[NumFlood]

\* The colliding keys always come with the same data.
FloodData(k) == IF k \in FloodColliding THEN {1} ELSE Values

FloodInsertKeys ==
  (IF FloodLevel < NumFlood THEN {FloodKeys[FloodLevel + 1]} ELSE {})
    \cup (IF FloodLevel >= NumFlood - 1
            THEN FloodExtraKeys \cup {FloodLast} ELSE {})

FloodRemoveKeys ==
  IF FloodLevel >= NumFlood - 1 THEN FloodExtraKeys \cup {FloodLast} ELSE {}

InitFlood ==
  /\ \E seed \in Seeds : map = nghttp3_map_init(seed)
  /\ heap = [live |-> {}, nalloc |-> 0, badfree |-> FALSE]
  /\ shadow = [k \in FloodClientKeys |-> NULL]
  /\ ret = Returned("init", 0, FALSE, FALSE)
  /\ count = [inserted |-> 0, removed |-> 0, dropped |-> 0]

FloodInsertCall(k, v) ==
  /\ Alive
  /\ InsertReturn(k, v, nghttp3_map_insert(map, k, v, TRUE, heap.nalloc + 1))

FloodInsert ==
  /\ count.inserted < MaxFloodInserts
  /\ \E k \in FloodInsertKeys : \E v \in FloodData(k) : FloodInsertCall(k, v)
  /\ count' = [count EXCEPT
                 !.inserted = IF ret'.rv = 0 THEN @ + 1 ELSE @]

FloodRemoveCall(k) ==
  /\ Alive
  /\ RemoveReturn(k, nghttp3_map_remove(map, k))

FloodRemove ==
  /\ count.removed < MaxFloodRemoves
  /\ \E k \in FloodRemoveKeys : FloodRemoveCall(k)
  /\ count' = [count EXCEPT
                 !.removed = IF ret'.rv = 0 THEN @ + 1 ELSE @]

NextFlood == FloodInsert \/ FloodRemove

SpecFlood == InitFlood /\ [][NextFlood]_vars

(***************************************************************************)
(* Properties.  A property of one call is stated of the call's operator    *)
(* applied to the table of every reachable state, with every key, data     *)
(* pointer and allocator outcome, so it covers the calls the client above  *)
(* does not get to make as well as those it makes.                         *)
(***************************************************************************)
\* The keys the properties are stated for: every key of the first client;
\* of the flooding client the first and the last colliding key and the
\* extra key.
ProbedKeys ==
  IF FloodLast \in DOMAIN shadow
    THEN FloodExtraKeys \cup {FloodKeys[1], FloodLast}
    ELSE AllKeys

\* Those of them the client inserts.
ClientKeys == ProbedKeys \cap DOMAIN shadow

\* The slots of m that hold an entry.
Occupied(m) == {i \in DOMAIN m.psl : m.psl[i] # 0}

\* The (key, data) pairs m holds.
Contents(m) == {<<m.keys[i], m.data[i]>> : i \in Occupied(m)}

\* size + 1 has reached 7/8 of the capacity (1 while nothing is allocated).
AtThreshold(m) ==
  LET cap == IF m.hashbits = 0 THEN 1 ELSE 2 ^ m.hashbits
  IN  m.size + 1 >= cap - (cap \div 8)

\* What nghttp3_mem_calloc may answer to an insert into the current table:
\* below the threshold it is not called.
Allocations == IF AtThreshold(map) THEN BOOLEAN ELSE {TRUE}

\* The buffer the next successful allocation returns.
NewBuf == heap.nalloc + 1

\* C1: in every reachable state, find(k) returns the data of the latest
\* successful insert of k for every key k that was not removed or cleared
\* since.
C1_FindReturnsInserted ==
  \A k \in ClientKeys :
    shadow[k] # NULL => nghttp3_map_find(map, k) = shadow[k]

\* C2: in every reachable state, find(k) misses for every key that was
\* never inserted or was removed or cleared since its latest insert.
C2_FindMissesAbsent ==
  \A k \in ProbedKeys : Stored(k) = NULL => nghttp3_map_find(map, k) = NULL

\* C3 as stated: size() is the successful inserts minus the successful
\* removes so far.
C3_SizeIsInsertsMinusRemoves ==
  nghttp3_map_size(map) = count.inserted - count.removed

\* C3, amended: size() is the successful inserts minus the successful
\* removes minus the entries dropped by clear so far.
C3_SizeAccounting ==
  nghttp3_map_size(map) = count.inserted - count.removed - count.dropped

\* Inserts, a remove and a clear of a table that held entries were made.
C3_Witness ==
  count.removed > 0 /\ count.dropped > 0 /\ map.size > 0

\* C4: an insert of a present key returns InvalidArgument, leaves size and
\* the stored data as they were and makes no swap before it finds the
\* duplicate.  OutOfMemory is let pass for the call that has to grow the
\* table first and is refused the memory.
C4_DuplicateRejected ==
  \A k \in ClientKeys, v \in Values, allocated \in Allocations :
    shadow[k] # NULL =>
      LET r == nghttp3_map_insert(map, k, v, allocated, NewBuf)
      IN  /\ r.rv = IF AtThreshold(map) /\ ~allocated
                      THEN NGHTTP3_ERR_NOMEM
                      ELSE NGHTTP3_ERR_INVALID_ARGUMENT
          /\ nghttp3_map_size(r.map) = nghttp3_map_size(map)
          /\ nghttp3_map_find(r.map, k) = shadow[k]
          /\ ~r.swapped

\* C5: an insert rejected as a duplicate leaves size and the set of
\* stored (key, data) pairs as they were, and hashbits and every slot as
\* well when size + 1 was below the growth threshold.  A growth to the
\* next bit width made before the rejection is let pass.
C5_DuplicateKeepsContents ==
  \A k \in ClientKeys, v \in Values, allocated \in Allocations :
    LET r == nghttp3_map_insert(map, k, v, allocated, NewBuf)
    IN  r.rv = NGHTTP3_ERR_INVALID_ARGUMENT =>
          /\ nghttp3_map_size(r.map) = nghttp3_map_size(map)
          /\ Contents(r.map) = Contents(map)
          /\ IF AtThreshold(map)
               THEN r.map.hashbits = map.hashbits + 1
               ELSE r.map = map

\* C6: an insert that has to grow while the allocation fails returns
\* OutOfMemory, obtains and releases no buffer and leaves the table as it
\* was: same hashbits, size, buffer and slots, and every key found or
\* missed as before the call.
C6_FailedGrowthChangesNothing ==
  \A k \in ClientKeys, v \in Values :
    AtThreshold(map) =>
      LET r == nghttp3_map_insert(map, k, v, FALSE, NewBuf)
      IN  /\ r.rv = NGHTTP3_ERR_NOMEM
          /\ r.map = map
          /\ r.alloc = NULL /\ r.freed = NULL
          /\ HeapAfter(heap, r.alloc, r.freed) = heap
          /\ \A j \in ProbedKeys :
               nghttp3_map_find(r.map, j) = nghttp3_map_find(map, j)

\* An insert returned OutOfMemory on a table that holds entries in a live
\* buffer.
C6_Witness ==
  /\ ret.op = "insert" /\ ret.rv = NGHTTP3_ERR_NOMEM
  /\ map.size > 0 /\ map.buf \in heap.live

\* C7: remove(k) of a present key returns success, takes one off size,
\* makes find(k) miss and leaves find(j) as it was for every other key.
C7_RemovePresent ==
  \A k \in ClientKeys :
    shadow[k] # NULL =>
      LET r == nghttp3_map_remove(map, k)
      IN  /\ r.rv = 0
          /\ nghttp3_map_size(r.map) = nghttp3_map_size(map) - 1
          /\ nghttp3_map_find(r.map, k) = NULL
          /\ \A j \in ProbedKeys \ {k} :
               nghttp3_map_find(r.map, j) = nghttp3_map_find(map, j)

\* C8: remove(k) of a key that is not present returns InvalidArgument and
\* leaves size, hashbits and every slot as they were.
C8_RemoveAbsent ==
  \A k \in ProbedKeys :
    Stored(k) = NULL =>
      LET r == nghttp3_map_remove(map, k)
      IN  r.rv = NGHTTP3_ERR_INVALID_ARGUMENT /\ r.map = map

\* C9: an insert that grows the table and succeeds adds its pair to the
\* (key, data) pairs the table held, loses, repeats and changes none, and
\* adds one to size.
C9_GrowthKeepsContents ==
  \A k \in ClientKeys, v \in Values :
    AtThreshold(map) =>
      LET r == nghttp3_map_insert(map, k, v, TRUE, NewBuf)
      IN  r.rv = 0 =>
            /\ r.resized
            /\ nghttp3_map_size(r.map) = nghttp3_map_size(map) + 1
            /\ Contents(r.map) = Contents(map) \cup {<<k, v>>}
            /\ Cardinality(Occupied(r.map)) = Cardinality(Occupied(map)) + 1
            /\ \A j \in ProbedKeys :
                 nghttp3_map_find(r.map, j) =
                   IF j = k THEN v ELSE nghttp3_map_find(map, j)

\* C10: hashbits never decreases, and changes only in an insert whose
\* pre-state has size + 1 >= cap - cap/8 and whose allocation succeeds; it
\* then becomes 4 if it was 0 and hashbits + 1 otherwise.
C10_HashbitsGrowOnly ==
  [][/\ map'.hashbits >= map.hashbits
     /\ map'.hashbits # map.hashbits =>
          /\ ret'.op = "insert"
          /\ AtThreshold(map)
          /\ heap'.nalloc = heap.nalloc + 1
          /\ map'.hashbits = IF map.hashbits = 0 THEN 4 ELSE map.hashbits + 1]_vars

\* The table has grown twice: from nothing to 4 bits and from 4 to 5.
C10_Witness ==
  ret.op = "insert" /\ ret.grew /\ map.hashbits = 5 /\ heap.nalloc = 2

\* The number of the occupied slots of m up to slot i.
SlotRank(m, i) == Cardinality({j \in 0..i : m.psl[j] # 0})

\* How many invocations in calls were handed v.
TimesCalled(calls, v) == Cardinality({n \in 1..Len(calls) : calls[n] = v})

\* C11: each() hands the callback the data of the occupied slots in
\* ascending slot order and of no empty slot; when an invocation returns
\* nonzero, each() returns that value and invokes no more; otherwise it
\* returns 0 after as many invocations as size() tells, every value handed
\* over as often as there are live keys that were inserted with it.  The
\* table is as before the call.
C11_EachVisitsLiveEntries ==
  \A failAt \in 0..MaxFailAt, failRv \in CallbackErrors :
    LET r == nghttp3_map_each(map, failAt, failRv)
        stopped == failAt \in 1..Cardinality(Occupied(map))
    IN  /\ r.map = map
        /\ \A i \in Occupied(map) :
             SlotRank(map, i) <= Len(r.calls) =>
               r.calls[SlotRank(map, i)] = map.data[i]
        /\ map.size = 0 => r.calls = <<>> /\ r.rv = 0
        /\ stopped => r.rv = failRv /\ Len(r.calls) = failAt
        /\ ~stopped =>
             /\ r.rv = 0
             /\ Len(r.calls) = nghttp3_map_size(map)
             /\ \A v \in Values :
                  TimesCalled(r.calls, v) =
                    Cardinality({k \in DOMAIN shadow : shadow[k] = v})

\* C12: clear() leaves size 0 and every psl 0, makes find miss for every
\* key, keeps hashbits and the buffer, changes nothing when called again,
\* and an insert of a key that was present before it then succeeds and the
\* key is found with the new data.
C12_ClearEmptiesTable ==
  LET c == nghttp3_map_clear(map)
  IN  /\ nghttp3_map_size(c) = 0
      /\ \A i \in DOMAIN c.psl : c.psl[i] = 0
      /\ \A k \in ProbedKeys : nghttp3_map_find(c, k) = NULL
      /\ c.hashbits = map.hashbits /\ c.buf = map.buf
      /\ nghttp3_map_clear(c) = c
      /\ \A k \in ClientKeys, v \in Values :
           shadow[k] # NULL =>
             LET r == nghttp3_map_insert(c, k, v, TRUE, NewBuf)
             IN  /\ r.rv = 0 /\ r.alloc = NULL /\ r.freed = NULL
                 /\ nghttp3_map_find(r.map, k) = v
                 /\ nghttp3_map_size(r.map) = 1

\* A grown table that held entries has been cleared: its slots still hold
\* the keys and data.
C12_Witness ==
  /\ ret.op = "clear" /\ map.size = 0
  /\ map.hashbits > NGHTTP3_INITIAL_HASHBITS
  /\ \E i \in DOMAIN map.psl : map.data[i] # NULL

\* C13: no two occupied slots hold the same key.
C13_NoDuplicateKeys ==
  \A i, j \in Occupied(map) : i # j => map.keys[i] # map.keys[j]

\* C14: the psl of every occupied slot i, less one, is the distance of i
\* from the ideal slot of the key it holds, modulo the table length.
C14_PslIsProbeDistance ==
  \A i \in Occupied(map) :
    map.psl[i] - 1 =
      (i - map_index(map, map.keys[i])) % TableLen(map.hashbits)

\* A remove has shifted entries back over the end of the table, which
\* still holds an entry away from its ideal slot.
C14_Witness ==
  /\ ret.op = "remove" /\ ret.rv = 0 /\ ret.wrapped
  /\ \E i \in Occupied(map) : map.psl[i] > 1

\* C15: the slot before an occupied slot with psl > 1 is occupied, with a
\* psl of at least that psl less one.
C15_RobinHoodChain ==
  \A i \in Occupied(map) :
    map.psl[i] > 1 =>
      LET p == (i - 1) % TableLen(map.hashbits)
      IN  map.psl[p] # 0 /\ map.psl[p] >= map.psl[i] - 1

\* C16: size is the number of slots with a nonzero psl, and 0 while
\* nothing is allocated.
C16_SizeIsOccupiedSlots ==
  /\ nghttp3_map_size(map) = Cardinality(Occupied(map))
  /\ map.hashbits = 0 => nghttp3_map_size(map) = 0

\* C17: whenever an insert has to grow the table and gets the memory, no
\* map_insert called by map_resize fails (every assert holds) and the new
\* table ends with the size of the old one.
C17_ReinsertionNeverFails ==
  AtThreshold(map) =>
    LET rs == map_resize(map, NewHashbits(map), TRUE, NewBuf)
    IN  rs.rv = 0 /\ rs.asserted /\ rs.copied = nghttp3_map_size(map)

\* C18: only an insert that grows the table and free() touch the
\* allocator: the insert obtains one new buffer, makes it the table's and
\* releases the one it replaces, free() releases the table's buffer; an
\* insert that returns OutOfMemory leaves the allocator alone.  From init
\* to free() the live buffers are the table's buffer when hashbits > 0 and
\* none when hashbits = 0, and nothing is released that is not live.
C18_BufferLifecycle ==
  [][/\ ~heap.badfree /\ ~heap'.badfree
     /\ Alive =>
          heap.live = (IF map.hashbits > 0 THEN {map.buf} ELSE {})
     /\ map.hashbits = 0 => map.buf = NULL /\ heap.nalloc = 0
     /\ ret'.op # "free" =>
          heap'.live = (IF map'.hashbits > 0 THEN {map'.buf} ELSE {})
     /\ ret'.op = "free" => heap'.live = {} /\ heap'.nalloc = heap.nalloc
     /\ (ret'.op = "insert" /\ ret'.grew) =>
          /\ heap'.nalloc = heap.nalloc + 1
          /\ map'.buf \notin heap.live \cup {NULL}
     /\ (ret'.op \notin {"insert", "free"}
           \/ (ret'.op = "insert" /\ ~ret'.grew)) =>
          heap' = heap /\ map'.buf = map.buf]_vars

\* free() has released the buffer of a table that had grown twice.
C18_Witness ==
  ret.op = "free" /\ heap.nalloc >= 2 /\ heap.live = {} /\ map.size > 0

\* C19: hashbits = 0 and size = 0, or hashbits >= 4 and size is below 7/8
\* of the capacity, so some slot is empty; every insert, find and remove
\* returns, its probing loop and remove's shift loop after at most as many
\* passes as the table has slots.
C19_ProbesTerminate ==
  /\ \/ map.hashbits = 0 /\ map.size = 0
     \/ /\ map.hashbits >= NGHTTP3_INITIAL_HASHBITS
        /\ map.size < TableLen(map.hashbits)
                        - (TableLen(map.hashbits) \div 8)
  /\ map.hashbits > 0 => \E i \in DOMAIN map.psl : map.psl[i] = 0
  /\ \A k \in ProbedKeys :
       /\ map.size > 0 =>
            LET f == map_find_probe(map, k)
            IN  f.done /\ f.psl <= TableLen(map.hashbits)
       /\ LET r == nghttp3_map_remove(map, k)
          IN  /\ r.rv # NO_RETURN
              /\ r.psl <= TableLen(map.hashbits)
              /\ r.moved <= TableLen(map.hashbits)
       /\ \A v \in Values, allocated \in Allocations :
            LET r == nghttp3_map_insert(map, k, v, allocated, NewBuf)
            IN  /\ r.rv # NO_RETURN
                /\ r.steps <= TableLen(r.map.hashbits)

\* The 16-slot table holds 13 entries, as many as it can before it grows.
C19_Witness ==
  /\ ret.op = "insert" /\ ret.rv = 0
  /\ map.hashbits = NGHTTP3_INITIAL_HASHBITS
  /\ map.size = TableLen(map.hashbits) - (TableLen(map.hashbits) \div 8) - 1

\* C20: no insert writes a probe length above 255 into a slot, be it into
\* an empty slot or by a swap, in the final map_insert or in the
\* re-insertions of map_resize.
C20_PslFitsInByte ==
  \A k \in ProbedKeys, v \in Values :
    nghttp3_map_insert(map, k, v, TRUE, NewBuf).maxpsl <= 255

====
